---- MODULE Spec2Model ----
(***************************************************************************)
(* Command relay of alt-controller: the role-aware server                  *)
(* (src/backend_server.js) and the legacy flat server                      *)
(* (src/unnamed/part_000).  Clients POST commands to /api/command, poll    *)
(* GET /api/commands, and a 5-minute timer prunes the in-memory log.       *)
(*                                                                         *)
(* JavaScript values are modelled as follows.  A string that the code only *)
(* tests for truthiness (scriptId, playerId, command, args.target, apiKey) *)
(* is "" when it is absent: !"" and !undefined are both true.  A timestamp *)
(* is a pair hasTs/timestamp: with hasTs = FALSE the field is undefined    *)
(* and every numeric comparison with it is false, as in JavaScript.  A     *)
(* handler runs to completion on Node's single thread, so each handler is  *)
(* one action.                                                             *)
(*                                                                         *)
(* The specifications share the handlers and differ in the requests they   *)
(* draw:                                                                   *)
(*   Spec        all handlers, the clock and the prune timer; one sender;  *)
(*   SpecRoles   three clients, two scripts, targets, at one instant;      *)
(*   SpecCap     submits onto a log one short of its capacity;             *)
(*   SpecPolls   repeated polls, with the history of what was returned;    *)
(*   SpecAuth    an enforced secret, missing fields, registers sans args;  *)
(*   SpecArgs    args with a key that no handler knows;                    *)
(*   SpecLegacy  the legacy flat server;                                   *)
(*   SpecOrder   trim and prune on a log one short of its capacity;        *)
(*   SpecLive    the prune timer under fairness.                           *)
(***************************************************************************)
EXTENDS Integers, Sequences, FiniteSets, TLC

VARIABLES
    commands,          \* let commands = []
    registeredUsers,   \* let registeredUsers = new Map()
    authorizedUsers,   \* let authorizedUsers = new Set()
    API_KEY,           \* process.env.API_KEY || null   ("" is null)
    REQUIRE_API_KEY,   \* process.env.REQUIRE_API_KEY === 'true'
    now,               \* Date.now()
    nextPrune,         \* instant at which the setInterval timer is due
    appended,          \* history: every record ever pushed, in push order
    last,              \* history: the last step taken and what it answered
    nregs,             \* history: number of accepted registrations
    nticks,            \* history: number of clock advances
    adminRegs,         \* history: <<id, name>> pairs registered with isAuthorized
    seen               \* history: <<poller, script, seq, instant>> of the records
                       \* polls returned since the last submit, register or prune

vars == <<commands, registeredUsers, authorizedUsers, API_KEY, REQUIRE_API_KEY,
          now, nextPrune, appended, last, nregs, nticks, adminRegs, seen>>

-----------------------------------------------------------------------------
(* Program constants *)

MaxCommands == 100
PollWindow == 30000
PruneAge == 300000
PruneInterval == 300000

(* Bounds of the model *)

StartTime == 1000000
ClockSkew == 1
MaxSubmits == 3
MaxRegisters == 1
MaxTicks == 1
MaxRoleSubmits == 1
MaxRoleRegisters == 2
CapExtra == 2
MaxPollSubmits == 1
MaxPollRegisters == 1
MaxPollTicks == 2
MaxAuthPosts == 2
MaxArgsSubmits == 2
MaxLegacySubmits == 2
MaxLegacyTicks == 1
MaxLiveSubmits == 2
MaxLiveTicks == 3

(* Inputs *)

Scripts == {"s1", "s2"}
Players == {"A", "B", "C"}
Targets == {"", "B", "Alt1"}
TickSteps == {PollWindow, PollWindow + 1, PruneInterval}

\* A client script runs under one player, whose id and display name are fixed;
\* "A" and "C" carry the same display name.
NameOf(p) == IF p = "B" THEN "Alt1" ELSE "Admin1"

NoUser == [registered |-> FALSE, scriptId |-> "", playerId |-> "", playerName |-> "",
           isAuthorized |-> FALSE, timestamp |-> 0]

EmptyArgs == [target |-> "", isAuthorized |-> FALSE]

\* The keys an args object carries: a field holding "" (FALSE for
\* isAuthorized) stands for a key that is absent.
ArgKeys(args) ==
    { k \in DOMAIN args : IF k = "isAuthorized" THEN args[k] ELSE args[k] # "" }

\* A request body / query as the handlers destructure it.
Request(scriptId, playerId, playerName, command, hasArgs, args, hasTs, timestamp, apiKey) ==
    [scriptId |-> scriptId, playerId |-> playerId, playerName |-> playerName,
     command |-> command, hasArgs |-> hasArgs, args |-> args,
     hasTs |-> hasTs, timestamp |-> timestamp, apiKey |-> apiKey]

-----------------------------------------------------------------------------
(* Helpers *)

\* function validateApiKey(req)
validateApiKey(apiKey) ==
    IF (~REQUIRE_API_KEY) \/ API_KEY = ""
    THEN TRUE
    ELSE apiKey = API_KEY

\* const allowedKeys = [...] of sanitizeCommandData
AllowedKeys == {"command", "args", "targetAlts", "mainUser", "commandId", "timestamp"}

\* function sanitizeCommandData(data): the allowed keys are copied, every
\* other key is left out.  backend_server.js defines it and never calls it.
sanitizeCommandData(data) ==
    [k \in DOMAIN data |->
        IF k \in AllowedKeys THEN data[k]
        ELSE IF k = "isAuthorized" THEN FALSE ELSE ""]

\* cmd.timestamp < x, false when the timestamp is undefined
TsLess(cmd, x) == cmd.hasTs /\ cmd.timestamp < x

\* cmd.timestamp > x, false when the timestamp is undefined
TsGreater(cmd, x) == cmd.hasTs /\ cmd.timestamp > x

\* commands.slice(-n)
SliceLast(s, n) ==
    IF Len(s) > n THEN SubSeq(s, Len(s) - n + 1, Len(s)) ELSE s

\* Variant of TrimToCapacity: keeps the first 100 records instead of the last
TrimToCapacity_KeepsOldest(s) ==
    IF Len(s) > MaxCommands THEN SubSeq(s, 1, MaxCommands) ELSE s

\* if (commands.length > 100) commands = commands.slice(-100)
TrimToCapacity(s) ==
    IF Len(s) > MaxCommands THEN SliceLast(s, MaxCommands) ELSE s

\* The commandObj literal of either branch of POST /api/command, built at
\* instant `at`.  seq (the push number) and regAdmin (whether this id had
\* registered as authorized under this name before) are history fields.
CommandObj(req, isAdmin, at, seq, regAdmin) ==
    [id |-> at,
     scriptId |-> req.scriptId,
     playerId |-> req.playerId,
     playerName |-> req.playerName,
     command |-> req.command,
     args |-> IF req.hasArgs THEN req.args ELSE EmptyArgs,
     hasTs |-> req.hasTs,
     timestamp |-> req.timestamp,
     isAdminCommand |-> isAdmin,
     targetAlts |-> IF isAdmin THEN "all" ELSE "",
     seq |-> seq,
     regAdmin |-> regAdmin]

\* The value registeredUsers.set(playerId, ...) stores
UserEntry(req, at) ==
    [registered |-> TRUE,
     scriptId |-> req.scriptId,
     playerId |-> req.playerId,
     playerName |-> req.playerName,
     isAuthorized |-> req.args.isAuthorized,
     timestamp |-> at]

\* Variants of Visible, each with one slip.
\* - the sender's own commands are echoed back
Visible_EchoesSender(cmd, scriptId, playerId, isCurrentUserAdmin, currentUserName, at) ==
    IF cmd.scriptId # scriptId THEN FALSE
    ELSE IF TsLess(cmd, at - PollWindow) THEN FALSE
    ELSE IF cmd.isAdminCommand
         THEN IF isCurrentUserAdmin THEN FALSE
              ELSE IF cmd.args.target # ""
                   THEN cmd.args.target = currentUserName \/ cmd.args.target = playerId
                   ELSE TRUE
    ELSE IF (~cmd.isAdminCommand) /\ isCurrentUserAdmin THEN TRUE
    ELSE FALSE

\* - the recency test is <= instead of <
Visible_WindowExclusive(cmd, scriptId, playerId, isCurrentUserAdmin, currentUserName, at) ==
    IF cmd.scriptId # scriptId \/ cmd.playerId = playerId THEN FALSE
    ELSE IF cmd.hasTs /\ cmd.timestamp <= at - PollWindow THEN FALSE
    ELSE IF cmd.isAdminCommand
         THEN IF isCurrentUserAdmin THEN FALSE
              ELSE IF cmd.args.target # ""
                   THEN cmd.args.target = currentUserName \/ cmd.args.target = playerId
                   ELSE TRUE
    ELSE IF (~cmd.isAdminCommand) /\ isCurrentUserAdmin THEN TRUE
    ELSE FALSE

\* - an untargeted admin command goes only to registered pollers
Visible_RegisteredOnly(cmd, scriptId, playerId, isCurrentUserAdmin, currentUserName, at) ==
    IF cmd.scriptId # scriptId \/ cmd.playerId = playerId THEN FALSE
    ELSE IF TsLess(cmd, at - PollWindow) THEN FALSE
    ELSE IF cmd.isAdminCommand
         THEN IF isCurrentUserAdmin THEN FALSE
              ELSE IF cmd.args.target # ""
                   THEN cmd.args.target = currentUserName \/ cmd.args.target = playerId
                   ELSE currentUserName # ""
    ELSE IF (~cmd.isAdminCommand) /\ isCurrentUserAdmin THEN TRUE
    ELSE FALSE

\* - the target of an admin command is ignored
Visible_IgnoresTarget(cmd, scriptId, playerId, isCurrentUserAdmin, currentUserName, at) ==
    IF cmd.scriptId # scriptId \/ cmd.playerId = playerId THEN FALSE
    ELSE IF TsLess(cmd, at - PollWindow) THEN FALSE
    ELSE IF cmd.isAdminCommand
         THEN IF isCurrentUserAdmin THEN FALSE
              ELSE TRUE
    ELSE IF (~cmd.isAdminCommand) /\ isCurrentUserAdmin THEN TRUE
    ELSE FALSE

\* - the target is tested before the poller's role
Visible_TargetBeforeRole(cmd, scriptId, playerId, isCurrentUserAdmin, currentUserName, at) ==
    IF cmd.scriptId # scriptId \/ cmd.playerId = playerId THEN FALSE
    ELSE IF TsLess(cmd, at - PollWindow) THEN FALSE
    ELSE IF cmd.isAdminCommand
         THEN IF cmd.args.target # ""
              THEN cmd.args.target = currentUserName \/ cmd.args.target = playerId
              ELSE IF isCurrentUserAdmin THEN FALSE
              ELSE TRUE
    ELSE IF (~cmd.isAdminCommand) /\ isCurrentUserAdmin THEN TRUE
    ELSE FALSE

\* - a non-admin command goes to every poller
Visible_AltToAll(cmd, scriptId, playerId, isCurrentUserAdmin, currentUserName, at) ==
    IF cmd.scriptId # scriptId \/ cmd.playerId = playerId THEN FALSE
    ELSE IF TsLess(cmd, at - PollWindow) THEN FALSE
    ELSE IF cmd.isAdminCommand
         THEN IF isCurrentUserAdmin THEN FALSE
              ELSE IF cmd.args.target # ""
                   THEN cmd.args.target = currentUserName \/ cmd.args.target = playerId
                   ELSE TRUE
    ELSE TRUE

\* - the scriptId is not compared
Visible_AnyScript(cmd, scriptId, playerId, isCurrentUserAdmin, currentUserName, at) ==
    IF cmd.playerId = playerId THEN FALSE
    ELSE IF TsLess(cmd, at - PollWindow) THEN FALSE
    ELSE IF cmd.isAdminCommand
         THEN IF isCurrentUserAdmin THEN FALSE
              ELSE IF cmd.args.target # ""
                   THEN cmd.args.target = currentUserName \/ cmd.args.target = playerId
                   ELSE TRUE
    ELSE IF (~cmd.isAdminCommand) /\ isCurrentUserAdmin THEN TRUE
    ELSE FALSE

\* The predicate of commands.filter in GET /api/commands
Visible(cmd, scriptId, playerId, isCurrentUserAdmin, currentUserName, at) ==
    IF cmd.scriptId # scriptId \/ cmd.playerId = playerId THEN FALSE
    ELSE IF TsLess(cmd, at - PollWindow) THEN FALSE
    ELSE IF cmd.isAdminCommand
         THEN IF isCurrentUserAdmin THEN FALSE
              ELSE IF cmd.args.target # ""
                   THEN cmd.args.target = currentUserName \/ cmd.args.target = playerId
                   ELSE TRUE
    ELSE IF (~cmd.isAdminCommand) /\ isCurrentUserAdmin THEN TRUE
    ELSE FALSE

\* const filteredCommands = commands.filter(...)
FilteredCommands(log, users, scriptId, playerId, at) ==
    LET currentUser == users[playerId]
        isCurrentUserAdmin == IF currentUser.registered THEN currentUser.isAuthorized ELSE FALSE
        currentUserName == IF currentUser.registered THEN currentUser.playerName ELSE ""
        Keep(cmd) == Visible(cmd, scriptId, playerId, isCurrentUserAdmin, currentUserName, at)
    IN SelectSeq(log, Keep)

\* Variant of PruneByAge: the cutoff is taken from the poll window
PruneByAge_PollWindow(log, at) ==
    LET cutoff == at - PollWindow
        Keep(cmd) == TsGreater(cmd, cutoff)
    IN SelectSeq(log, Keep)

\* Variant of PruneByAge: a record is dropped only when its timestamp is
\* known to be at or before the cutoff, so a record without one stays
PruneByAge_KeepsUndated(log, at) ==
    LET cutoff == at - PruneAge
        Keep(cmd) == ~(cmd.hasTs /\ cmd.timestamp <= cutoff)
    IN SelectSeq(log, Keep)

\* commands.filter(cmd => cmd.timestamp > cutoff)
PruneByAge(log, at) ==
    LET cutoff == at - PruneAge
        Keep(cmd) == TsGreater(cmd, cutoff)
    IN SelectSeq(log, Keep)

\* What a step leaves in `last`: the handler, its HTTP status, the requester
\* and, for a poll, the commands array of the response.
Step(op, status, scriptId, playerId, result) ==
    [op |-> op, status |-> status, scriptId |-> scriptId, playerId |-> playerId,
     commands |-> result]

-----------------------------------------------------------------------------
(* Initial state: the module-level declarations, app.listen and setInterval *)

Init ==
    /\ commands = <<>>
    /\ registeredUsers = [p \in Players |-> NoUser]
    /\ authorizedUsers = {}
    /\ API_KEY = ""
    /\ REQUIRE_API_KEY = FALSE
    /\ now = StartTime
    /\ nextPrune = StartTime + PruneInterval
    /\ appended = <<>>
    /\ last = Step("start", 0, "", "", <<>>)
    /\ nregs = 0
    /\ nticks = 0
    /\ adminRegs = {}
    /\ seen = {}

-----------------------------------------------------------------------------
(* Handlers.  The history variable `seen` is kept by the specifications,   *)
(* not by the handlers.                                                     *)

\* Variant of HandleRegister: the register command is not trapped and is
\* pushed onto the log as well
HandleRegister_Logged(req) ==
    IF ~req.hasArgs
    THEN /\ last' = Step("command", 500, req.scriptId, req.playerId, <<>>)
         /\ UNCHANGED <<commands, registeredUsers, authorizedUsers, appended, nregs, adminRegs>>
    ELSE LET commandObj == CommandObj(req, req.playerName \in authorizedUsers, now,
                                      Len(appended) + 1,
                                      <<req.playerId, req.playerName>> \in adminRegs)
         IN /\ registeredUsers' = [registeredUsers EXCEPT ![req.playerId] = UserEntry(req, now)]
            /\ authorizedUsers' = IF req.args.isAuthorized
                                  THEN authorizedUsers \cup {req.playerName}
                                  ELSE authorizedUsers
            /\ adminRegs' = IF req.args.isAuthorized
                            THEN adminRegs \cup {<<req.playerId, req.playerName>>}
                            ELSE adminRegs
            /\ nregs' = nregs + 1
            /\ last' = Step("register", 200, req.scriptId, req.playerId, <<>>)
            /\ commands' = TrimToCapacity(Append(commands, commandObj))
            /\ appended' = Append(appended, commandObj)

\* Variant of HandleRegister: the registry entry is stored before the args
\* are read, so a register without args leaves an entry behind
HandleRegister_SetsBeforeFault(req) ==
    IF ~req.hasArgs
    THEN /\ last' = Step("command", 500, req.scriptId, req.playerId, <<>>)
         /\ registeredUsers' = [registeredUsers EXCEPT ![req.playerId] =
                                    [UserEntry(req, now) EXCEPT !.isAuthorized = FALSE]]
         /\ UNCHANGED <<commands, authorizedUsers, appended, nregs, adminRegs>>
    ELSE /\ registeredUsers' = [registeredUsers EXCEPT ![req.playerId] = UserEntry(req, now)]
         /\ authorizedUsers' = IF req.args.isAuthorized
                               THEN authorizedUsers \cup {req.playerName}
                               ELSE authorizedUsers
         /\ adminRegs' = IF req.args.isAuthorized
                         THEN adminRegs \cup {<<req.playerId, req.playerName>>}
                         ELSE adminRegs
         /\ nregs' = nregs + 1
         /\ last' = Step("register", 200, req.scriptId, req.playerId, <<>>)
         /\ UNCHANGED <<commands, appended>>

\* Variant of HandleRegister: a registration with isAuthorized true also
\* turns the records already stored under that name into admin records
HandleRegister_Reflags(req) ==
    IF ~req.hasArgs
    THEN /\ last' = Step("command", 500, req.scriptId, req.playerId, <<>>)
         /\ UNCHANGED <<commands, registeredUsers, authorizedUsers, appended, nregs, adminRegs>>
    ELSE /\ registeredUsers' = [registeredUsers EXCEPT ![req.playerId] = UserEntry(req, now)]
         /\ authorizedUsers' = IF req.args.isAuthorized
                               THEN authorizedUsers \cup {req.playerName}
                               ELSE authorizedUsers
         /\ adminRegs' = IF req.args.isAuthorized
                         THEN adminRegs \cup {<<req.playerId, req.playerName>>}
                         ELSE adminRegs
         /\ nregs' = nregs + 1
         /\ last' = Step("register", 200, req.scriptId, req.playerId, <<>>)
         /\ commands' = [i \in DOMAIN commands |->
                            IF req.args.isAuthorized /\ commands[i].playerName = req.playerName
                            THEN [commands[i] EXCEPT !.isAdminCommand = TRUE,
                                                     !.targetAlts = "all"]
                            ELSE commands[i]]
         /\ UNCHANGED appended

\* Variant of HandleRegister: a registration with isAuthorized false removes
\* the name from the authorized-name set
HandleRegister_Revokes(req) ==
    IF ~req.hasArgs
    THEN /\ last' = Step("command", 500, req.scriptId, req.playerId, <<>>)
         /\ UNCHANGED <<commands, registeredUsers, authorizedUsers, appended, nregs, adminRegs>>
    ELSE /\ registeredUsers' = [registeredUsers EXCEPT ![req.playerId] = UserEntry(req, now)]
         /\ authorizedUsers' = IF req.args.isAuthorized
                               THEN authorizedUsers \cup {req.playerName}
                               ELSE authorizedUsers \ {req.playerName}
         /\ adminRegs' = IF req.args.isAuthorized
                         THEN adminRegs \cup {<<req.playerId, req.playerName>>}
                         ELSE adminRegs
         /\ nregs' = nregs + 1
         /\ last' = Step("register", 200, req.scriptId, req.playerId, <<>>)
         /\ UNCHANGED <<commands, appended>>

\* Variant of HandleRegister: the authorized set receives the id instead of
\* the display name
HandleRegister_AddsId(req) ==
    IF ~req.hasArgs
    THEN /\ last' = Step("command", 500, req.scriptId, req.playerId, <<>>)
         /\ UNCHANGED <<commands, registeredUsers, authorizedUsers, appended, nregs, adminRegs>>
    ELSE /\ registeredUsers' = [registeredUsers EXCEPT ![req.playerId] = UserEntry(req, now)]
         /\ authorizedUsers' = IF req.args.isAuthorized
                               THEN authorizedUsers \cup {req.playerId}
                               ELSE authorizedUsers
         /\ adminRegs' = IF req.args.isAuthorized
                         THEN adminRegs \cup {<<req.playerId, req.playerName>>}
                         ELSE adminRegs
         /\ nregs' = nregs + 1
         /\ last' = Step("register", 200, req.scriptId, req.playerId, <<>>)
         /\ UNCHANGED <<commands, appended>>

\* POST /api/command, command === 'register'
HandleRegister(req) ==
    IF ~req.hasArgs
    THEN \* userData.isAuthorized throws a TypeError before set() runs
         /\ last' = Step("command", 500, req.scriptId, req.playerId, <<>>)
         /\ UNCHANGED <<commands, registeredUsers, authorizedUsers, appended, nregs, adminRegs>>
    ELSE /\ registeredUsers' = [registeredUsers EXCEPT ![req.playerId] = UserEntry(req, now)]
         /\ authorizedUsers' = IF req.args.isAuthorized
                               THEN authorizedUsers \cup {req.playerName}
                               ELSE authorizedUsers
         /\ adminRegs' = IF req.args.isAuthorized
                         THEN adminRegs \cup {<<req.playerId, req.playerName>>}
                         ELSE adminRegs
         /\ nregs' = nregs + 1
         /\ last' = Step("register", 200, req.scriptId, req.playerId, <<>>)
         /\ UNCHANGED <<commands, appended>>

\* Variant of HandleCommand: the admin flag is taken from the sender id's own
\* registry entry instead of the authorized-name set
HandleCommand_ByRegistry(req) ==
    LET commandObj == CommandObj(req,
                                 registeredUsers[req.playerId].registered
                                     /\ registeredUsers[req.playerId].isAuthorized,
                                 now, Len(appended) + 1,
                                 <<req.playerId, req.playerName>> \in adminRegs)
    IN /\ commands' = TrimToCapacity(Append(commands, commandObj))
       /\ appended' = Append(appended, commandObj)
       /\ last' = Step("command", 200, req.scriptId, req.playerId, <<>>)
       /\ UNCHANGED <<registeredUsers, authorizedUsers, nregs, adminRegs>>

\* Variant of HandleCommand: the record is put at the front of the log
HandleCommand_Prepends(req) ==
    LET commandObj == CommandObj(req, req.playerName \in authorizedUsers, now,
                                 Len(appended) + 1,
                                 <<req.playerId, req.playerName>> \in adminRegs)
    IN /\ commands' = TrimToCapacity(<<commandObj>> \o commands)
       /\ appended' = Append(appended, commandObj)
       /\ last' = Step("command", 200, req.scriptId, req.playerId, <<>>)
       /\ UNCHANGED <<registeredUsers, authorizedUsers, nregs, adminRegs>>

\* POST /api/command, any other command: push, then trim
HandleCommand(req) ==
    LET commandObj == CommandObj(req, req.playerName \in authorizedUsers, now,
                                 Len(appended) + 1,
                                 <<req.playerId, req.playerName>> \in adminRegs)
    IN /\ commands' = TrimToCapacity(Append(commands, commandObj))
       /\ appended' = Append(appended, commandObj)
       /\ last' = Step("command", 200, req.scriptId, req.playerId, <<>>)
       /\ UNCHANGED <<registeredUsers, authorizedUsers, nregs, adminRegs>>

\* app.post('/api/command', ...)
PostCommand(req) ==
    /\ UNCHANGED <<API_KEY, REQUIRE_API_KEY, now, nextPrune, nticks>>
    /\ IF ~validateApiKey(req.apiKey)
       THEN /\ last' = Step("command", 401, req.scriptId, req.playerId, <<>>)
            /\ UNCHANGED <<commands, registeredUsers, authorizedUsers, appended, nregs,
                           adminRegs>>
       ELSE IF req.scriptId = "" \/ req.playerId = "" \/ req.command = ""
       THEN /\ last' = Step("command", 400, req.scriptId, req.playerId, <<>>)
            /\ UNCHANGED <<commands, registeredUsers, authorizedUsers, appended, nregs,
                           adminRegs>>
       ELSE IF req.command = "register"
       THEN HandleRegister(req)
       ELSE HandleCommand(req)

\* Variant of GetCommands: a poll removes the records it returns from the log
GetCommands_Consumes(scriptId, playerId, apiKey) ==
    /\ UNCHANGED <<registeredUsers, authorizedUsers, API_KEY, REQUIRE_API_KEY,
                   now, nextPrune, appended, nregs, nticks, adminRegs>>
    /\ IF ~validateApiKey(apiKey)
       THEN last' = Step("poll", 401, scriptId, playerId, <<>>) /\ UNCHANGED commands
       ELSE IF scriptId = "" \/ playerId = ""
       THEN last' = Step("poll", 400, scriptId, playerId, <<>>) /\ UNCHANGED commands
       ELSE LET result == FilteredCommands(commands, registeredUsers, scriptId, playerId, now)
                Left(cmd) == \A i \in DOMAIN result : result[i] # cmd
            IN /\ last' = Step("poll", 200, scriptId, playerId, result)
               /\ commands' = SelectSeq(commands, Left)

\* app.get('/api/commands', ...)
GetCommands(scriptId, playerId, apiKey) ==
    /\ UNCHANGED <<commands, registeredUsers, authorizedUsers, API_KEY, REQUIRE_API_KEY,
                   now, nextPrune, appended, nregs, nticks, adminRegs>>
    /\ IF ~validateApiKey(apiKey)
       THEN last' = Step("poll", 401, scriptId, playerId, <<>>)
       ELSE IF scriptId = "" \/ playerId = ""
       THEN last' = Step("poll", 400, scriptId, playerId, <<>>)
       ELSE last' = Step("poll", 200, scriptId, playerId,
                         FilteredCommands(commands, registeredUsers, scriptId, playerId, now))

\* setInterval(() => { ... }, 300000)
Cleanup ==
    /\ now >= nextPrune
    /\ commands' = PruneByAge(commands, now)
    /\ nextPrune' = now + PruneInterval
    /\ last' = Step("prune", 0, "", "", <<>>)
    /\ UNCHANGED <<registeredUsers, authorizedUsers, API_KEY, REQUIRE_API_KEY, now,
                   appended, nregs, nticks, adminRegs>>

\* The clock advances by d; a due timer fires before the clock moves on.
Tick(d) ==
    /\ now < nextPrune
    /\ now' = now + d
    /\ nticks' = nticks + 1
    /\ last' = Step("tick", 0, "", "", <<>>)
    /\ UNCHANGED <<commands, registeredUsers, authorizedUsers, API_KEY, REQUIRE_API_KEY,
                   nextPrune, appended, nregs, adminRegs>>

-----------------------------------------------------------------------------
(* Handlers of the legacy flat server (src/unnamed/part_000): no registry,  *)
(* no roles; a command named 'coordinated' carries its data in args.        *)

\* args || {} of the legacy server's requests
LegacyNoArgs == [command |-> "", targetAlts |-> "", note |-> ""]

\* function validateCoordinatedCommand(data), for data an object
validateCoordinatedCommand(data) == data.command # ""

\* The commandObj literal of either branch of the legacy POST /api/command
LegacyCommandObj(req, isCoordinated, args, at, seq) ==
    [id |-> at,
     scriptId |-> req.scriptId,
     playerId |-> req.playerId,
     playerName |-> req.playerName,
     command |-> req.command,
     args |-> args,
     hasTs |-> req.hasTs,
     timestamp |-> req.timestamp,
     isCoordinated |-> isCoordinated,
     seq |-> seq]

\* Variant of LegacyVisible: the target of a coordinated command is ignored
LegacyVisible_IgnoresTarget(cmd, scriptId, playerId, at) ==
    IF cmd.scriptId # scriptId \/ cmd.playerId = playerId THEN FALSE
    ELSE IF TsLess(cmd, at - PollWindow) THEN FALSE
    ELSE TRUE

\* The callback of commands.filter in the legacy GET /api/commands
LegacyVisible(cmd, scriptId, playerId, at) ==
    IF cmd.scriptId # scriptId \/ cmd.playerId = playerId THEN FALSE
    ELSE IF TsLess(cmd, at - PollWindow) THEN FALSE
    ELSE IF cmd.isCoordinated /\ cmd.args.targetAlts # ""
         THEN IF cmd.args.targetAlts # "all" /\ cmd.args.targetAlts # playerId
              THEN FALSE
              ELSE TRUE
    ELSE TRUE

LegacyFilteredCommands(log, scriptId, playerId, at) ==
    LET Keep(cmd) == LegacyVisible(cmd, scriptId, playerId, at)
    IN SelectSeq(log, Keep)

\* Legacy app.post('/api/command', ...)
LegacyPostCommand(req) ==
    /\ UNCHANGED <<registeredUsers, authorizedUsers, API_KEY, REQUIRE_API_KEY, now,
                   nextPrune, nregs, nticks, adminRegs>>
    /\ IF ~validateApiKey(req.apiKey)
       THEN /\ last' = Step("command", 401, req.scriptId, req.playerId, <<>>)
            /\ UNCHANGED <<commands, appended>>
       ELSE IF req.scriptId = "" \/ req.playerId = "" \/ req.command = ""
       THEN /\ last' = Step("command", 400, req.scriptId, req.playerId, <<>>)
            /\ UNCHANGED <<commands, appended>>
       ELSE IF req.command = "coordinated"
       THEN LET coordinatedData ==
                    IF req.hasArgs THEN sanitizeCommandData(req.args) ELSE LegacyNoArgs
                commandObj == LegacyCommandObj(req, TRUE, coordinatedData, now,
                                               Len(appended) + 1)
            IN IF ~validateCoordinatedCommand(coordinatedData)
               THEN /\ last' = Step("command", 400, req.scriptId, req.playerId, <<>>)
                    /\ UNCHANGED <<commands, appended>>
               ELSE /\ commands' = TrimToCapacity(Append(commands, commandObj))
                    /\ appended' = Append(appended, commandObj)
                    /\ last' = Step("command", 200, req.scriptId, req.playerId, <<>>)
       ELSE LET commandObj ==
                    LegacyCommandObj(req, FALSE,
                                     IF req.hasArgs THEN req.args ELSE LegacyNoArgs,
                                     now, Len(appended) + 1)
            IN /\ commands' = TrimToCapacity(Append(commands, commandObj))
               /\ appended' = Append(appended, commandObj)
               /\ last' = Step("command", 200, req.scriptId, req.playerId, <<>>)

\* Legacy app.get('/api/commands', ...)
LegacyGetCommands(scriptId, playerId, apiKey) ==
    /\ UNCHANGED <<commands, registeredUsers, authorizedUsers, API_KEY, REQUIRE_API_KEY,
                   now, nextPrune, appended, nregs, nticks, adminRegs>>
    /\ IF ~validateApiKey(apiKey)
       THEN last' = Step("poll", 401, scriptId, playerId, <<>>)
       ELSE IF scriptId = "" \/ playerId = ""
       THEN last' = Step("poll", 400, scriptId, playerId, <<>>)
       ELSE last' = Step("poll", 200, scriptId, playerId,
                         LegacyFilteredCommands(commands, scriptId, playerId, now))

-----------------------------------------------------------------------------
(* Spec: the handlers, the clock and the prune timer.  One client submits,  *)
(* with a timestamp that is absent, equal to the server clock or ahead of   *)
(* it by ClockSkew, and may register as authorized; it and a second client  *)
(* poll.                                                                    *)

SubmitRequests ==
    { Request("s1", "A", NameOf("A"), "bring", FALSE, EmptyArgs, t[1], t[2], "") :
        t \in {<<FALSE, 0>>, <<TRUE, now>>, <<TRUE, now + ClockSkew>>} }

RegisterRequests ==
    { Request("s1", "A", NameOf("A"), "register", TRUE,
              [target |-> "", isAuthorized |-> TRUE], TRUE, now, "") }

Submit ==
    /\ Len(appended) < MaxSubmits
    /\ \E req \in SubmitRequests : PostCommand(req)
    /\ UNCHANGED seen

Register ==
    /\ nregs < MaxRegisters
    /\ \E req \in RegisterRequests : PostCommand(req)
    /\ UNCHANGED seen

Poll ==
    /\ \E p \in {"A", "B"} : GetCommands("s1", p, "")
    /\ UNCHANGED seen

Prune ==
    /\ Cleanup
    /\ UNCHANGED seen

Advance ==
    /\ nticks < MaxTicks
    /\ \E d \in TickSteps : Tick(d)
    /\ UNCHANGED seen

Next == Submit \/ Register \/ Poll \/ Prune \/ Advance

Spec == Init /\ [][Next]_vars

-----------------------------------------------------------------------------
(* SpecRoles: roles, targets and scripts at one instant.  Three clients     *)
(* submit, register and poll; every timestamp is the server's Date.now().   *)

RoleSubmitRequests ==
    { Request(s, p, NameOf(p), "bring", TRUE, [target |-> t, isAuthorized |-> FALSE],
              TRUE, now, "") :
        s \in Scripts, p \in Players, t \in Targets }

RoleRegisterRequests ==
    { Request("s1", p, NameOf(p), "register", TRUE, [target |-> "", isAuthorized |-> a],
              TRUE, now, "") :
        p \in Players, a \in BOOLEAN }

RoleSubmit ==
    /\ Len(appended) < MaxRoleSubmits
    /\ \E req \in RoleSubmitRequests : PostCommand(req)
    /\ UNCHANGED seen

RoleRegister ==
    /\ nregs < MaxRoleRegisters
    /\ \E req \in RoleRegisterRequests : PostCommand(req)
    /\ UNCHANGED seen

RolePoll ==
    /\ \E s \in Scripts, p \in Players : GetCommands(s, p, "")
    /\ UNCHANGED seen

NextRoles == RoleSubmit \/ RoleRegister \/ RolePoll

SpecRoles == Init /\ [][NextRoles]_vars

-----------------------------------------------------------------------------
(* SpecCap: the capacity trim.  The log starts one short of its capacity,   *)
(* as MaxCommands - 1 accepted submits of "A", one per millisecond, leave   *)
(* it.                                                                      *)

Prefill(n) ==
    [i \in 1..n |->
        CommandObj(Request("s1", "A", NameOf("A"), "bring", FALSE, EmptyArgs,
                           TRUE, StartTime + i, ""),
                   FALSE, StartTime + i, i, FALSE)]

InitCap ==
    /\ commands = Prefill(MaxCommands - 1)
    /\ registeredUsers = [p \in Players |-> NoUser]
    /\ authorizedUsers = {}
    /\ API_KEY = ""
    /\ REQUIRE_API_KEY = FALSE
    /\ now = StartTime + MaxCommands
    /\ nextPrune = StartTime + PruneInterval
    /\ appended = Prefill(MaxCommands - 1)
    /\ last = Step("command", 200, "s1", "A", <<>>)
    /\ nregs = 0
    /\ nticks = 0
    /\ adminRegs = {}
    /\ seen = {}

CapSubmitRequests ==
    { Request("s1", p, NameOf(p), "bring", FALSE, EmptyArgs, TRUE, now, "") :
        p \in Players }

CapSubmit ==
    /\ Len(appended) < MaxCommands + CapExtra
    /\ \E req \in CapSubmitRequests : PostCommand(req)
    /\ UNCHANGED seen

CapPoll ==
    /\ \E p \in Players : GetCommands("s1", p, "")
    /\ UNCHANGED seen

NextCap == CapSubmit \/ CapPoll

SpecCap == InitCap /\ [][NextCap]_vars

-----------------------------------------------------------------------------
(* SpecPolls: repeated polls.  "A" submits, "A" or "B" registers as         *)
(* authorized, both poll and the clock advances; `seen` records what each   *)
(* poll returned and is emptied by a submit, a register and a prune.        *)

PollSubmitRequests ==
    { Request("s1", "A", NameOf("A"), "bring", FALSE, EmptyArgs, t[1], t[2], "") :
        t \in {<<FALSE, 0>>, <<TRUE, now>>} }

PollRegisterRequests ==
    { Request("s1", p, NameOf(p), "register", TRUE, [target |-> "", isAuthorized |-> TRUE],
              TRUE, now, "") :
        p \in {"A", "B"} }

TrackedSubmit ==
    /\ Len(appended) < MaxPollSubmits
    /\ \E req \in PollSubmitRequests : PostCommand(req)
    /\ seen' = {}

TrackedRegister ==
    /\ nregs < MaxPollRegisters
    /\ \E req \in PollRegisterRequests : PostCommand(req)
    /\ seen' = {}

TrackedPoll ==
    /\ \E p \in {"A", "B"} : GetCommands("s1", p, "")
    /\ seen' = seen \cup { <<last'.playerId, last'.scriptId, last'.commands[i].seq, now>> :
                              i \in DOMAIN last'.commands }

TrackedPrune ==
    /\ Cleanup
    /\ seen' = {}

PollAdvance ==
    /\ nticks < MaxPollTicks
    /\ \E d \in TickSteps : Tick(d)
    /\ UNCHANGED seen

NextPolls == TrackedSubmit \/ TrackedRegister \/ TrackedPoll \/ TrackedPrune \/ PollAdvance

SpecPolls == Init /\ [][NextPolls]_vars

-----------------------------------------------------------------------------
(* SpecAuth: rejected requests.  The environment may configure and enforce  *)
(* a shared secret; requests come with the secret right, wrong or absent,   *)
(* with required fields absent, and registers come with or without args.    *)

ApiKeys == {"", "wrong", "secret"}

InitAuth ==
    /\ commands = <<>>
    /\ registeredUsers = [p \in Players |-> NoUser]
    /\ authorizedUsers = {}
    /\ API_KEY \in {"", "secret"}
    /\ REQUIRE_API_KEY \in BOOLEAN
    /\ now = StartTime
    /\ nextPrune = StartTime + PruneInterval
    /\ appended = <<>>
    /\ last = Step("start", 0, "", "", <<>>)
    /\ nregs = 0
    /\ nticks = 0
    /\ adminRegs = {}
    /\ seen = {}

AuthPostRequests ==
    { Request(s, p, NameOf(p), c, h, [target |-> "", isAuthorized |-> h], TRUE, now, k) :
        s \in {"", "s1"}, p \in {"", "A"}, c \in {"", "bring", "register"},
        h \in BOOLEAN, k \in ApiKeys }

AuthPost ==
    /\ Len(appended) + nregs < MaxAuthPosts
    /\ \E req \in AuthPostRequests : PostCommand(req)
    /\ UNCHANGED seen

AuthPoll ==
    /\ \E s \in {"", "s1"}, p \in {"", "A", "B"}, k \in ApiKeys : GetCommands(s, p, k)
    /\ UNCHANGED seen

NextAuth == AuthPost \/ AuthPoll

SpecAuth == InitAuth /\ [][NextAuth]_vars

-----------------------------------------------------------------------------
(* SpecArgs: the args a submit carries.  "A" and "B" submit with args that  *)
(* may hold a target and a key `note` that no handler knows; "A" may        *)
(* register as authorized; "A" and "B" poll.                                *)

ArgsSubmitRequests ==
    { Request("s1", p, NameOf(p), "bring", TRUE,
              [target |-> t, isAuthorized |-> FALSE, note |-> n], TRUE, now, "") :
        p \in {"A", "B"}, t \in {"", "B"}, n \in {"", "x"} }

ArgsSubmit ==
    /\ Len(appended) < MaxArgsSubmits
    /\ \E req \in ArgsSubmitRequests : PostCommand(req)
    /\ UNCHANGED seen

ArgsRegister ==
    /\ nregs < MaxRegisters
    /\ \E req \in RegisterRequests : PostCommand(req)
    /\ UNCHANGED seen

ArgsPoll ==
    /\ \E p \in {"A", "B"} : GetCommands("s1", p, "")
    /\ UNCHANGED seen

NextArgs == ArgsSubmit \/ ArgsRegister \/ ArgsPoll

SpecArgs == Init /\ [][NextArgs]_vars

-----------------------------------------------------------------------------
(* SpecLegacy: the legacy flat server.  "A" submits regular and             *)
(* coordinated commands, with or without a command and a target in args;    *)
(* three clients poll two scripts; the clock advances and the timer prunes. *)

LegacyTargets == {"", "all", "B"}

LegacySubmitRequests ==
    { Request("s1", "A", NameOf("A"), c, h,
              [command |-> a, targetAlts |-> t, note |-> "x"], TRUE, now, "") :
        c \in {"bring", "coordinated"}, h \in BOOLEAN,
        a \in {"", "follow"}, t \in LegacyTargets }

LegacySubmit ==
    /\ Len(appended) < MaxLegacySubmits
    /\ \E req \in LegacySubmitRequests : LegacyPostCommand(req)
    /\ UNCHANGED seen

LegacyPoll ==
    /\ \E s \in Scripts, p \in Players : LegacyGetCommands(s, p, "")
    /\ UNCHANGED seen

LegacyPrune ==
    /\ Cleanup
    /\ UNCHANGED seen

LegacyAdvance ==
    /\ nticks < MaxLegacyTicks
    /\ \E d \in TickSteps : Tick(d)
    /\ UNCHANGED seen

NextLegacy == LegacySubmit \/ LegacyPoll \/ LegacyPrune \/ LegacyAdvance

SpecLegacy == Init /\ [][NextLegacy]_vars

-----------------------------------------------------------------------------
(* SpecOrder: every way a record enters and leaves the log.  The log starts *)
(* one short of its capacity; "A" submits with a timestamp equal to the     *)
(* server clock or ahead of it, and may register; "B" polls; the clock      *)
(* advances by the timer's period and the timer prunes.                     *)

OrderSubmitRequests ==
    { Request("s1", "A", NameOf("A"), "bring", FALSE, EmptyArgs, TRUE, t, "") :
        t \in {now, now + ClockSkew} }

OrderSubmit ==
    /\ Len(appended) < MaxCommands + CapExtra
    /\ \E req \in OrderSubmitRequests : PostCommand(req)
    /\ UNCHANGED seen

OrderPoll ==
    /\ GetCommands("s1", "B", "")
    /\ UNCHANGED seen

OrderAdvance ==
    /\ nticks < MaxTicks
    /\ Tick(PruneInterval)
    /\ UNCHANGED seen

NextOrder == OrderSubmit \/ Register \/ OrderPoll \/ Prune \/ OrderAdvance

SpecOrder == InitCap /\ [][NextOrder]_vars

-----------------------------------------------------------------------------
(* SpecLive: the prune timer under fairness.  The clock advances by the     *)
(* timer's period; "A" submits during the first periods, with a timestamp   *)
(* that is absent, equal to the server clock or ahead of it; "B" polls.     *)
(* setInterval fires whenever it is due, whatever requests arrive, and time *)
(* passes: weak fairness of the prune and of the clock.  Requests have no   *)
(* fairness: none need ever arrive.                                         *)

LiveSubmit ==
    /\ Len(appended) < MaxLiveSubmits
    /\ nticks + 2 <= MaxLiveTicks
    /\ \E req \in SubmitRequests : PostCommand(req)
    /\ UNCHANGED seen

LivePoll ==
    /\ GetCommands("s1", "B", "")
    /\ UNCHANGED seen

LiveAdvance ==
    /\ nticks < MaxLiveTicks
    /\ Tick(PruneInterval)
    /\ UNCHANGED seen

NextLive == LiveSubmit \/ LivePoll \/ Prune \/ LiveAdvance

SpecLive == Init /\ [][NextLive]_vars /\ WF_vars(Prune) /\ WF_vars(LiveAdvance)

-----------------------------------------------------------------------------
(* Properties.  `last` is overwritten by every step, and a poll changes     *)
(* nothing else, so while last.op = "poll" the log, the registry and the    *)
(* clock are those the poll read.                                           *)

Polled == last.op = "poll" /\ last.status = 200

Poller == registeredUsers[last.playerId]

PollerIsAdmin == Poller.registered /\ Poller.isAuthorized

Returned(cmd) == \E i \in DOMAIN last.commands : last.commands[i] = cmd

\* cmd's timestamp is within the poll window at the current instant
Fresh(cmd) == cmd.hasTs /\ cmd.timestamp >= now - PollWindow

\* C1. Self-exclusion: a poll by requester P returns no record whose sender
\* id is P, whatever P's role or display name.
C1_SelfExclusion ==
    Polled => \A i \in DOMAIN last.commands : last.commands[i].playerId # last.playerId

\* A non-admin polled while the log held its own fresh, untargeted admin
\* record for the same script: only the sender test withholds it.
C1_Witness ==
    /\ Polled
    /\ ~PollerIsAdmin
    /\ \E i \in DOMAIN commands :
          /\ commands[i].playerId = last.playerId
          /\ commands[i].scriptId = last.scriptId
          /\ commands[i].isAdminCommand
          /\ commands[i].args.target = ""
          /\ Fresh(commands[i])

\* The role-target rule of the read path, for the current poller
RoleTargetRule(cmd) ==
    IF cmd.isAdminCommand
    THEN /\ ~PollerIsAdmin
         /\ \/ cmd.args.target = ""
            \/ cmd.args.target = last.playerId
            \/ (Poller.registered /\ cmd.args.target = Poller.playerName)
    ELSE PollerIsAdmin

\* C2. Recency window: a poll at instant now returns no record with
\* timestamp < now - 30000, and returns every record of the log with
\* timestamp >= now - 30000 that has the poller's scriptId, is not sent by the
\* poller and satisfies the role-target rule.
C2_RecencyWindow ==
    Polled =>
        /\ \A i \in DOMAIN last.commands :
              ~(last.commands[i].hasTs /\ last.commands[i].timestamp < now - PollWindow)
        /\ \A i \in DOMAIN commands :
              ( /\ commands[i].hasTs
                /\ commands[i].timestamp >= now - PollWindow
                /\ commands[i].scriptId = last.scriptId
                /\ commands[i].playerId # last.playerId
                /\ RoleTargetRule(commands[i]) )
              => Returned(commands[i])

\* A poll returned a record exactly 30000 ms old while the log also held an
\* older record that passes every other test.
C2_Witness ==
    /\ Polled
    /\ \E i \in DOMAIN last.commands :
          last.commands[i].hasTs /\ last.commands[i].timestamp = now - PollWindow
    /\ \E i \in DOMAIN commands :
          /\ commands[i].hasTs
          /\ commands[i].timestamp < now - PollWindow
          /\ commands[i].scriptId = last.scriptId
          /\ commands[i].playerId # last.playerId
          /\ RoleTargetRule(commands[i])

\* C3. Capacity bound: the log never holds more than 100 records, and once
\* more than 100 records have been appended with no prune in between, the log
\* is exactly the 100 most recently appended ones, in insertion order.
C3_CapacityBound ==
    /\ Len(commands) <= MaxCommands
    /\ Len(appended) > MaxCommands =>
          /\ Len(commands) = MaxCommands
          /\ \A i \in 1..MaxCommands :
                commands[i] = appended[Len(appended) - MaxCommands + i]

\* Two records more than the capacity have been appended.
C3_Witness ==
    /\ last.op = "command"
    /\ Len(appended) = MaxCommands + 2
    /\ commands[1].seq = 3
    /\ commands[MaxCommands].seq = MaxCommands + 2

\* The positions of the log whose record the prune at `at` must keep
MustKeep(log, at) ==
    {i \in DOMAIN log : log[i].hasTs /\ log[i].timestamp > at - PruneAge}

C5_UntargetedBroadcast ==
    Polled =>
        \A i \in DOMAIN commands :
            ( /\ commands[i].regAdmin
              /\ commands[i].args.target = ""
              /\ commands[i].scriptId = last.scriptId
              /\ commands[i].playerId # last.playerId
              /\ Fresh(commands[i])
              /\ ~PollerIsAdmin )
            => Returned(commands[i])

\* An unregistered id polled and got the broadcast of a registered admin.
C5_Witness ==
    /\ Polled
    /\ ~Poller.registered
    /\ \E i \in DOMAIN last.commands :
          /\ last.commands[i].regAdmin
          /\ last.commands[i].args.target = ""
          /\ last.commands[i].command = "bring"

\* C6. Targeted admin command: an admin record with an explicit target T is
\* returned only to a poller whose id or registered display name is T, and a
\* non-admin poller with id T (other than the sender, same script, within the
\* window) does receive it.
C6_TargetedCommand ==
    Polled =>
        /\ \A i \in DOMAIN last.commands :
              (last.commands[i].isAdminCommand /\ last.commands[i].args.target # "")
              => \/ last.commands[i].args.target = last.playerId
                 \/ (Poller.registered /\ last.commands[i].args.target = Poller.playerName)
        /\ \A i \in DOMAIN commands :
              ( /\ commands[i].isAdminCommand
                /\ commands[i].args.target = last.playerId
                /\ commands[i].scriptId = last.scriptId
                /\ commands[i].playerId # last.playerId
                /\ Fresh(commands[i])
                /\ ~PollerIsAdmin )
              => Returned(commands[i])

\* An unregistered poller C polled while the log held a fresh admin record
\* targeted at B for C's script, and received nothing.
C6_Witness ==
    /\ Polled
    /\ last.playerId = "C"
    /\ ~Poller.registered
    /\ last.commands = <<>>
    /\ \E i \in DOMAIN commands :
          /\ commands[i].isAdminCommand
          /\ commands[i].args.target = "B"
          /\ commands[i].scriptId = last.scriptId
          /\ commands[i].playerId # last.playerId
          /\ Fresh(commands[i])

\* C7. Admins never receive admin broadcasts: a poll by an id whose registry
\* entry has isAuthorized = true returns no record with isAdminCommand true.
C7_AdminsGetNoAdminCommands ==
    (Polled /\ PollerIsAdmin) =>
        \A i \in DOMAIN last.commands : ~last.commands[i].isAdminCommand

\* An admin polled while the log held a fresh admin record of another sender
\* targeted at that very admin's id.
C7_Witness ==
    /\ Polled
    /\ PollerIsAdmin
    /\ \E i \in DOMAIN commands :
          /\ commands[i].isAdminCommand
          /\ commands[i].args.target = last.playerId
          /\ commands[i].scriptId = last.scriptId
          /\ commands[i].playerId # last.playerId
          /\ Fresh(commands[i])

\* C8. Non-admin commands go only to admins: a record with isAdminCommand
\* false is returned only to a poller whose registry entry has isAuthorized.
C8_AltCommandsOnlyToAdmins ==
    Polled =>
        \A i \in DOMAIN last.commands :
            (~last.commands[i].isAdminCommand) => PollerIsAdmin

\* A registered non-admin polled while the log held another client's fresh
\* non-admin record for the same script, and received nothing.
C8_Witness ==
    /\ Polled
    /\ Poller.registered
    /\ ~Poller.isAuthorized
    /\ last.commands = <<>>
    /\ \E i \in DOMAIN commands :
          /\ ~commands[i].isAdminCommand
          /\ commands[i].scriptId = last.scriptId
          /\ commands[i].playerId # last.playerId
          /\ Fresh(commands[i])

\* C9. Script isolation: every record returned by a poll with scriptId S has
\* scriptId S.
C9_ScriptIsolation ==
    Polled => \A i \in DOMAIN last.commands : last.commands[i].scriptId = last.scriptId

\* An admin polled script S while the log held another client's fresh
\* non-admin record of a different script.
C9_Witness ==
    /\ Polled
    /\ PollerIsAdmin
    /\ \E i \in DOMAIN commands :
          /\ commands[i].scriptId # last.scriptId
          /\ ~commands[i].isAdminCommand
          /\ commands[i].playerId # last.playerId
          /\ Fresh(commands[i])

\* C10. Register is trapped: an accepted register leaves the log unchanged and
\* writes only the registry entry of its sender id; no record whose command
\* is "register" is ever in the log or in a poll response.
C10_RegisterTrapped ==
    /\ [][ last'.op = "register" =>
             /\ commands' = commands
             /\ appended' = appended
             /\ \A p \in Players :
                   p # last'.playerId => registeredUsers'[p] = registeredUsers[p]
             /\ registeredUsers'[last'.playerId].registered
             /\ registeredUsers'[last'.playerId].playerId = last'.playerId
             /\ registeredUsers'[last'.playerId].timestamp = now ]_vars
    /\ [](/\ \A i \in DOMAIN commands : commands[i].command # "register"
          /\ \A i \in DOMAIN last.commands : last.commands[i].command # "register")

\* A second registration of the same id, accepted while the log was not
\* empty: one registry entry, the log as it was.
C10_Witness ==
    /\ last.op = "register"
    /\ nregs = 2
    /\ Cardinality({p \in Players : registeredUsers[p].registered}) = 1
    /\ commands # <<>>
    /\ commands = appended

\* A step that answered 200 to a submit: it pushed one record
Accepted == last'.op = "command" /\ last'.status = 200 /\ Len(appended') = Len(appended) + 1

\* The record an accepted submit pushed
Pushed == appended'[Len(appended')]

\* C11. Admin flag by name at write time: an accepted submit stores its record
\* with isAdminCommand = TRUE exactly when the sender's display name is in the
\* authorized-name set at that moment, whatever the sender id and its registry
\* entry; so a submit under a name that was registered with isAuthorized = TRUE
\* before is an admin record, and a poll does not return an admin record to
\* its sender, returns it to every other non-admin poller of the script when
\* it is untargeted, and returns it only to its target when it is targeted.
C11_AdminFlagByName ==
    /\ [][Accepted =>
            /\ Pushed.isAdminCommand = (Pushed.playerName \in authorizedUsers)
            /\ (\E pr \in adminRegs : pr[2] = Pushed.playerName) => Pushed.isAdminCommand
            /\ commands'[Len(commands')] = Pushed]_vars
    /\ [](Polled =>
            \A i \in DOMAIN commands :
                (commands[i].isAdminCommand /\ commands[i].scriptId = last.scriptId
                    /\ Fresh(commands[i]))
                =>
                /\ commands[i].playerId = last.playerId => ~Returned(commands[i])
                /\ ( /\ commands[i].playerId # last.playerId
                     /\ ~PollerIsAdmin
                     /\ commands[i].args.target = "" ) => Returned(commands[i])
                /\ ( /\ commands[i].args.target # ""
                     /\ Returned(commands[i]) )
                   => \/ commands[i].args.target = last.playerId
                      \/ (Poller.registered /\ commands[i].args.target = Poller.playerName))

\* A client that never registered as authorized, and whose registry entry is
\* not authorized, submitted under a name that another id had registered as
\* authorized; the record is an admin record and a non-admin poll returned it.
C11_Witness ==
    /\ Polled
    /\ ~PollerIsAdmin
    /\ \E i \in DOMAIN last.commands :
          /\ last.commands[i].isAdminCommand
          /\ ~last.commands[i].regAdmin
          /\ ~registeredUsers[last.commands[i].playerId].isAuthorized
          /\ \E pr \in adminRegs :
                pr[2] = last.commands[i].playerName /\ pr[1] # last.commands[i].playerId

\* C12. The authorized-name set only grows: no step removes a name from it,
\* not even a registration of the same or of another id under that name with
\* isAuthorized false; and a step that adds a name is an accepted register
\* with isAuthorized true, which adds the registered display name.
C12_AuthorizedOnlyGrows ==
    [][ /\ authorizedUsers \subseteq authorizedUsers'
        /\ authorizedUsers' # authorizedUsers =>
              /\ last'.op = "register"
              /\ last'.status = 200
              /\ registeredUsers'[last'.playerId].isAuthorized
              /\ authorizedUsers' =
                    authorizedUsers \cup {registeredUsers'[last'.playerId].playerName} ]_vars

\* An id has just registered with isAuthorized false under a name that is in
\* the authorized-name set.
C12_Witness ==
    /\ last.op = "register"
    /\ registeredUsers[last.playerId].registered
    /\ ~registeredUsers[last.playerId].isAuthorized
    /\ registeredUsers[last.playerId].playerName \in authorizedUsers

\* r lists records of log in the order the log holds them
InLogOrder(r, log) ==
    /\ \A i \in DOMAIN r : \E k \in DOMAIN log : log[k] = r[i]
    /\ \A i, j \in DOMAIN r :
          i < j => \E k, l \in DOMAIN log : k < l /\ log[k] = r[i] /\ log[l] = r[j]

Rejected == last.op \in {"command", "poll"} /\ last.status \in {400, 401, 500}

\* C14. Rejected requests do not touch core state: a step in which a submit
\* or a poll is answered 401 (secret enforced and missing or wrong), 400
\* (scriptId, playerId or command missing) or 500 (a register without args)
\* leaves the log, the registry and the authorized-name set as they were.
C14_RejectedLeavesState ==
    [][Rejected' =>
        /\ commands' = commands
        /\ registeredUsers' = registeredUsers
        /\ authorizedUsers' = authorizedUsers]_vars

\* A register without args was answered 500 while the log held a record, and
\* its sender has no registry entry.
C14_Witness ==
    /\ last.op = "command"
    /\ last.status = 500
    /\ Len(commands) > 0
    /\ ~registeredUsers[last.playerId].registered

\* C15. Args allow-list: every record stored in the log has args whose keys
\* are all within the allow-list (command, args, targetAlts/target, mainUser,
\* commandId, timestamp); any other key the submitter supplied has been
\* dropped.  (The allow-list is the one of sanitizeCommandData, with target
\* beside targetAlts.)
C15_ArgsAllowList ==
    \A i \in DOMAIN commands :
        ArgKeys(commands[i].args) \subseteq (AllowedKeys \cup {"target"})

\* The scriptId, self-exclusion and recency tests reject cmd for the poller
BasicReject(cmd) ==
    \/ cmd.scriptId # last.scriptId
    \/ cmd.playerId = last.playerId
    \/ (cmd.hasTs /\ cmd.timestamp < now - PollWindow)

\* C16. Legacy flat variant: a poll of the registry-less server returns a
\* record of the poller's script that is not older than 30 seconds to every
\* poller other than its sender when the record's targetAlts is "all" or the
\* poller's id, and does not return a coordinated record whose targetAlts is
\* some other id; a record that fails the scriptId, self-exclusion or recency
\* test is rejected by the legacy filter and, for every role and name of the
\* poller, by the role-aware filter alike, and the legacy filter rejects no
\* other record than those two kinds.
C16_LegacyFlatVariant ==
    Polled =>
        \A i \in DOMAIN commands :
            LET cmd == commands[i] IN
            /\ (~BasicReject(cmd) /\ cmd.args.targetAlts \in {"all", last.playerId})
                    => Returned(cmd)
            /\ (cmd.isCoordinated /\ cmd.args.targetAlts \notin {"", "all", last.playerId})
                    => ~Returned(cmd)
            /\ BasicReject(cmd) =>
                    /\ ~Returned(cmd)
                    /\ \A admin \in BOOLEAN, name \in {"", "Admin1", "Alt1"} :
                          ~Visible(cmd, last.scriptId, last.playerId, admin, name, now)
            /\ ~Returned(cmd) =>
                    \/ BasicReject(cmd)
                    \/ (cmd.isCoordinated /\ cmd.args.targetAlts \notin {"", "all", last.playerId})

\* A poll of the legacy server returned a coordinated record addressed to
\* "all" while the log also held a fresh coordinated record of the same
\* script that another client sent and addressed to a third one.
C16_Witness ==
    /\ Polled
    /\ \E i \in DOMAIN last.commands :
          /\ last.commands[i].isCoordinated
          /\ last.commands[i].args.targetAlts = "all"
    /\ \E i \in DOMAIN commands :
          /\ commands[i].isCoordinated
          /\ ~BasicReject(commands[i])
          /\ commands[i].args.targetAlts \notin {"", "all", last.playerId}

\* C17. Records are immutable after insertion: the records ever pushed are
\* never rewritten, and every record of the log is, field for field, the
\* record that its submit pushed; so a record that a step keeps in the log is
\* left as it was, also by a register that changes its sender's role or adds
\* its sender's name to the authorized-name set.
C17_RecordsImmutable ==
    /\ [](\A i \in DOMAIN commands :
            /\ commands[i].seq \in DOMAIN appended
            /\ commands[i] = appended[commands[i].seq])
    /\ [][ /\ \A k \in DOMAIN appended :
                k \in DOMAIN appended' /\ appended'[k] = appended[k]
           /\ \A i \in DOMAIN commands, j \in DOMAIN commands' :
                commands[i].seq = commands'[j].seq => commands'[j] = commands[i] ]_vars

\* A client has just registered as authorized, and the log holds a record it
\* sent before under the registered name: the record is not an admin record.
C17_Witness ==
    /\ last.op = "register"
    /\ \E i \in DOMAIN commands :
          /\ commands[i].playerId = last.playerId
          /\ ~commands[i].isAdminCommand
          /\ commands[i].playerName \in authorizedUsers
          /\ registeredUsers[commands[i].playerId].isAuthorized

\* C18. Only-recent visibility: every record a poll at instant now returns
\* has a timestamp, and now - 30000 <= timestamp <= now, whatever timestamp
\* the accepted submit carried (none, or one ahead of the server clock).
C18_OnlyRecentVisible ==
    Polled =>
        \A i \in DOMAIN last.commands :
            /\ last.commands[i].hasTs
            /\ now - PollWindow <= last.commands[i].timestamp
            /\ last.commands[i].timestamp <= now

\* The push numbers of the records of log
Seqs(log) == { log[i].seq : i \in DOMAIN log }

\* C19. Order preservation under interleaving: in every interleaving of
\* submits, polls, registers and prunes the log is an order-preserving
\* subsequence of the sequence of accepted appends, without duplicates; a
\* record enters only at the end of the log, by an accepted submit; and a
\* record leaves only as the oldest one, by the trim of a submit onto a full
\* log, or by a prune that finds it no younger than 5 minutes.
C19_OrderPreserved ==
    /\ []( /\ \A i \in DOMAIN commands :
                /\ commands[i].seq \in DOMAIN appended
                /\ appended[commands[i].seq] = commands[i]
           /\ \A i \in DOMAIN commands :
                i < Len(commands) => commands[i].seq < commands[i + 1].seq )
    /\ [][ /\ \A k \in Seqs(commands') \ Seqs(commands) :
                /\ Accepted
                /\ k = Len(appended')
                /\ commands'[Len(commands')].seq = k
           /\ \A k \in Seqs(commands) \ Seqs(commands') :
                \/ /\ last'.op = "prune"
                   /\ ~(appended[k].hasTs /\ appended[k].timestamp > now - PruneAge)
                \/ /\ Accepted
                   /\ k = commands[1].seq
                   /\ Len(commands) = MaxCommands
                   /\ Len(commands') = MaxCommands ]_vars

\* More records than the capacity have been appended, so the trim has
\* dropped the oldest one, and a prune has just removed a record from the
\* middle of the log while it kept an older and a younger one.
C19_Witness ==
    /\ last.op = "prune"
    /\ Len(appended) > MaxCommands
    /\ \E i \in DOMAIN commands :
          /\ i < Len(commands)
          /\ commands[i + 1].seq > commands[i].seq + 1

\* C20. Prune is independent of traffic: with the timer firing when due and
\* the clock advancing, every record of the log is eventually removed,
\* whether or not any request arrives; and after a prune that runs at an
\* instant later than t + 300000 the log holds no record with timestamp t.
C20_PruneIndependentOfTraffic ==
    /\ \A k \in 1..(MaxLiveSubmits + 1) :
          (k \in Seqs(commands)) ~> (k \notin Seqs(commands))
    /\ [][last'.op = "prune" =>
            \A j \in DOMAIN commands' :
                ~(commands'[j].hasTs /\ now' > commands'[j].timestamp + PruneAge)]_vars

\* A prune has just emptied the log; among the records it or an earlier
\* prune removed is one without a timestamp and one whose timestamp was
\* ahead of the server clock at its submit.
C20_Witness ==
    /\ last.op = "prune"
    /\ commands = <<>>
    /\ \E k \in DOMAIN appended : ~appended[k].hasTs
    /\ \E k \in DOMAIN appended :
          appended[k].hasTs /\ appended[k].timestamp > appended[k].id

\* C21. Registry/authorized-set consistency: in every state each registry
\* entry with isAuthorized true has its display name in the authorized-name
\* set; so a submit by an id whose registry entry is authorized, under the
\* name of that entry, is stored as an admin record.
C21_RegistryConsistent ==
    /\ [](\A p \in Players :
            (registeredUsers[p].registered /\ registeredUsers[p].isAuthorized)
                => registeredUsers[p].playerName \in authorizedUsers)
    /\ [][ ( /\ Accepted
             /\ registeredUsers[Pushed.playerId].registered
             /\ registeredUsers[Pushed.playerId].isAuthorized
             /\ registeredUsers[Pushed.playerId].playerName = Pushed.playerName )
           => Pushed.isAdminCommand ]_vars

\* An id whose registry entry is authorized has polled as an admin while the
\* log held a record it submitted under its registered name after it had
\* registered: the record is an admin record.
C21_Witness ==
    /\ Polled
    /\ PollerIsAdmin
    /\ \E i \in DOMAIN commands :
          /\ commands[i].playerId = last.playerId
          /\ commands[i].playerName = Poller.playerName
          /\ commands[i].regAdmin
          /\ commands[i].isAdminCommand

====
